---- MODULE Spec2Model ----
(***************************************************************************)
(* A model of the AI news aggregator (src/app.py, src/config.py): the      *)
(* article store (one SQLite table), the ingestion pipeline                *)
(* (refresh_feeds) and the enrichment pipeline (process_unanalyzed), run   *)
(* by request threads that interleave at the level of database             *)
(* transactions and outbound calls.                                        *)
(*                                                                         *)
(* Python and SQL values are tagged records, so that a test such as        *)
(* isinstance(value, list) or "IS NULL" is decided by the tag.             *)
(* A url is a natural number: 0 is the empty string '' and k > 0 is the    *)
(* k-th distinct non-empty link.  The columns title, source and            *)
(* published_date are written once by the INSERT, never read by the        *)
(* pipelines, and are left out of the row.                                 *)
(***************************************************************************)
EXTENDS Integers, Sequences, FiniteSets, TLC

VARIABLES
    articles,       \* the committed rows of table articles; articles[i] has id i
    lock,           \* 0, or the thread holding SQLite's write lock (uncommitted INSERT)
    clock,          \* the value datetime.now() returns
    API_KEY,        \* the module global API_KEY ("" is no credential)
    HAS_ANTHROPIC,  \* whether "import anthropic" succeeded
    pc,             \* per thread: where it stands
    caller,         \* per thread: who called add_article ("direct" or "refresh")
    arg,            \* per thread: the article passed to add_article, or the
                    \* (id, updates) passed to update_article
    stamp,          \* per thread: the datetime.now() of its uncommitted INSERT
    queue,          \* per thread: refresh_feeds' articles still to add
    batch,          \* per thread: process_unanalyzed's articles still to analyze
    result,         \* per thread: analyze_article's result awaiting update_article
    count,          \* per thread: new_count / processed
    ret,            \* per thread: what the last finished call returned (or raised)
    rows0,          \* per thread: the number of rows when the running call started
    fetched,        \* per thread: what fetch_all_feeds returned to the running call
    ncalls          \* per thread: outbound calls made by the running call

vars == <<articles, lock, clock, API_KEY, HAS_ANTHROPIC, pc, caller, arg, stamp, queue,
          batch, result, count, ret, rows0, fetched, ncalls>>

-----------------------------------------------------------------------------
(* Bounds *)

\* Distinct non-empty links the feeds and callers can name.
NumUrls == 1
\* Entries one feed serves to one fetch.
MaxEntries == 2

\* Items of a list passed to update_article.
MaxItems == 2

\* Request threads.
Procs == {1, 2}

-----------------------------------------------------------------------------
(* Program constants *)

\* The configured feeds, by name: the first two of the six config.py lists.
FEEDS == <<"TechCrunch AI", "MIT Technology Review">>
MAX_ARTICLES_PER_FEED == 15
BATCH_SIZE == 5
ANTHROPIC_API_KEY == ""

-----------------------------------------------------------------------------
(* Python / SQL values *)

None == [t |-> "null"]
Str(s) == [t |-> "str", v |-> s]
Num(n) == [t |-> "num", v |-> n]
List(l) == [t |-> "list", v |-> l]
Raised(e) == [t |-> "raise", v |-> e]

IsNull(x) == x.t = "null"

\* Python truthiness of a value.
Truthy(x) ==
    CASE x.t = "null" -> FALSE
      [] x.t = "str"  -> x.v # ""
      [] x.t = "num"  -> x.v # 0
      [] x.t = "list" -> x.v # <<>>

RECURSIVE JoinItems(_)
JoinItems(l) ==
    IF l = <<>> THEN ""
    ELSE IF Len(l) = 1 THEN "\"" \o Head(l) \o "\""
    ELSE "\"" \o Head(l) \o "\", " \o JoinItems(Tail(l))

\* json.dumps of a list of strings: its text.
JsonDumps(l) == "[" \o JoinItems(l) \o "]"

\* dict.get(key, default) on a parsed object (a function from its keys).
Get(d, key, default) == IF key \in DOMAIN d THEN d[key] ELSE default

-----------------------------------------------------------------------------
(* The table *)

Urls == 0..NumUrls
Contents == {None, Str("text")}
NoArticle == [url |-> 0, content |-> None]

\* What a refresh_feeds call has fetched so far: the feeds done and how many
\* of them failed, the non-empty links the feeds that did not fail served
\* (ok), the non-empty urls of the articles fetch_all_feeds collected
\* (links), whether one of these urls was collected twice (dup) and whether
\* an article with an empty url was collected (empty).
NoFetch == [n |-> 0, failed |-> 0, ok |-> {}, links |-> {}, dup |-> FALSE, empty |-> FALSE]

\* The row an INSERT creates: the analysis columns are NULL, is_read is 0.
NewRow(article, now) ==
    [ url               |-> article.url,
      content           |-> article.content,
      fetched_date      |-> now,
      summary           |-> None,
      category          |-> None,
      sentiment         |-> None,
      sentiment_score   |-> None,
      bubble_indicators |-> None,
      is_read           |-> Num(0) ]

Ids == 1..Len(articles)

\* Mutant: the column is declared without UNIQUE.
UniqueViolationNever(url) == FALSE

\* url TEXT UNIQUE: the INSERT of a url some row holds fails.
UniqueViolation(url) == \E i \in Ids : articles[i].url = url

\* Mutant: the constraint is checked without the write lock, against the
\* committed rows only.
CanWriteUnlocked(p) == TRUE

\* SQLite's write lock: a statement that writes waits while another
\* connection holds an uncommitted write.
CanWrite(p) == lock = 0

-----------------------------------------------------------------------------
\* API_KEY = os.environ.get("ANTHROPIC_API_KEY", ANTHROPIC_API_KEY): key is what
\* the environment gives, by default the configured one.
InitEnv(key) ==
    /\ articles = <<>>
    /\ lock = 0
    /\ clock = 0
    /\ API_KEY = key
    /\ HAS_ANTHROPIC \in BOOLEAN
    /\ pc = [p \in Procs |-> "idle"]
    /\ caller = [p \in Procs |-> "none"]
    /\ arg = [p \in Procs |-> NoArticle]
    /\ stamp = [p \in Procs |-> 0]
    /\ queue = [p \in Procs |-> <<>>]
    /\ batch = [p \in Procs |-> <<>>]
    /\ result = [p \in Procs |-> None]
    /\ count = [p \in Procs |-> 0]
    /\ ret = [p \in Procs |-> [op |-> "none", val |-> None]]
    /\ rows0 = [p \in Procs |-> 0]
    /\ fetched = [p \in Procs |-> NoFetch]
    /\ ncalls = [p \in Procs |-> 0]

\* The environment sets no credential.
Init == InitEnv(ANTHROPIC_API_KEY)

\* A call starts on an idle thread.
Enter(p, label, who) ==
    /\ pc[p] = "idle"
    /\ pc' = [pc EXCEPT ![p] = label]
    /\ caller' = [caller EXCEPT ![p] = who]
    /\ rows0' = [rows0 EXCEPT ![p] = Len(articles)]
    /\ ret' = [ret EXCEPT ![p] = [op |-> "running", val |-> None]]

\* The call's frame is dropped: the thread is idle again and remembers nothing.
Leave(p) ==
    /\ pc[p] = "done"
    /\ pc' = [pc EXCEPT ![p] = "idle"]
    /\ caller' = [caller EXCEPT ![p] = "none"]
    /\ arg' = [arg EXCEPT ![p] = NoArticle]
    /\ queue' = [queue EXCEPT ![p] = <<>>]
    /\ batch' = [batch EXCEPT ![p] = <<>>]
    /\ result' = [result EXCEPT ![p] = None]
    /\ count' = [count EXCEPT ![p] = 0]
    /\ ret' = [ret EXCEPT ![p] = [op |-> "none", val |-> None]]
    /\ rows0' = [rows0 EXCEPT ![p] = 0]
    /\ fetched' = [fetched EXCEPT ![p] = NoFetch]
    /\ ncalls' = [ncalls EXCEPT ![p] = 0]
    /\ UNCHANGED <<articles, lock, clock, API_KEY, HAS_ANTHROPIC, stamp>>

-----------------------------------------------------------------------------
(* add_article *)

\* A caller other than refresh_feeds calls add_article(article) with a url
\* of U and a content of C.
AddArticleCallFrom(p, U, C) ==
    \E u \in U, c \in C :
        /\ Enter(p, "aa_insert", "direct")
        /\ arg' = [arg EXCEPT ![p] = [url |-> u, content |-> c]]
        /\ UNCHANGED <<articles, lock, clock, API_KEY, HAS_ANTHROPIC, stamp, queue, batch,
                       result, count, fetched, ncalls>>

\* content is optional in the payload: article.get('content') is None when absent.
AddArticleCall(p) == AddArticleCallFrom(p, Urls, Contents)

\* Mutant: refresh_feeds counts every article it passes to add_article.
AddArticleReturnsCountsAll(p, value) ==
    IF caller[p] = "direct"
    THEN /\ pc' = [pc EXCEPT ![p] = "done"]
         /\ ret' = [ret EXCEPT ![p] = [op |-> "add_article", val |-> value]]
         /\ count' = count
    ELSE /\ pc' = [pc EXCEPT ![p] = "rf_loop"]
         /\ count' = [count EXCEPT ![p] = @ + 1]
         /\ ret' = ret

\* What the caller does with add_article's return value: a direct caller has
\* it as its result; refresh_feeds counts it when it is truthy and goes on.
AddArticleReturns(p, value) ==
    IF caller[p] = "direct"
    THEN /\ pc' = [pc EXCEPT ![p] = "done"]
         /\ ret' = [ret EXCEPT ![p] = [op |-> "add_article", val |-> value]]
         /\ count' = count
    ELSE /\ pc' = [pc EXCEPT ![p] = "rf_loop"]
         /\ count' = [count EXCEPT ![p] = IF Truthy(value) THEN @ + 1 ELSE @]
         /\ ret' = ret

\* Mutant: INSERT OR REPLACE: the insert of a stored url writes the row anew.
AaInsertReplaces(p) ==
    /\ pc[p] = "aa_insert"
    /\ CanWrite(p)
    /\ IF UniqueViolation(arg[p].url)
       THEN /\ articles' = [i \in Ids |-> IF articles[i].url = arg[p].url
                                          THEN NewRow(arg[p], clock) ELSE articles[i]]
            /\ AddArticleReturns(p, None)
            /\ UNCHANGED <<lock, clock, stamp>>
       ELSE \E now \in {clock, clock + 1} :
            /\ lock' = p
            /\ clock' = now
            /\ stamp' = [stamp EXCEPT ![p] = now]
            /\ pc' = [pc EXCEPT ![p] = "aa_commit"]
            /\ UNCHANGED <<ret, count, articles>>
    /\ UNCHANGED <<API_KEY, HAS_ANTHROPIC, caller, arg, queue, batch, result,
                   rows0, fetched, ncalls>>

\* conn.execute(INSERT ...): the constraint is checked and the row written
\* under the write lock; an IntegrityError is caught and None returned.
AaInsert(p) ==
    /\ pc[p] = "aa_insert"
    /\ CanWrite(p)
    /\ IF UniqueViolation(arg[p].url)
       THEN /\ AddArticleReturns(p, None)
            /\ UNCHANGED <<lock, clock, stamp>>
       ELSE \E now \in {clock, clock + 1} :
            /\ lock' = p
            /\ clock' = now
            /\ stamp' = [stamp EXCEPT ![p] = now]
            /\ pc' = [pc EXCEPT ![p] = "aa_commit"]
            /\ UNCHANGED <<ret, count>>
    /\ UNCHANGED <<articles, API_KEY, HAS_ANTHROPIC, caller, arg, queue, batch, result,
                   rows0, fetched, ncalls>>

\* conn.commit(); return cursor.lastrowid
AaCommit(p) ==
    /\ pc[p] = "aa_commit"
    /\ articles' = Append(articles, NewRow(arg[p], stamp[p]))
    /\ lock' = 0
    /\ stamp' = [stamp EXCEPT ![p] = 0]
    /\ AddArticleReturns(p, Num(Len(articles) + 1))
    /\ UNCHANGED <<clock, API_KEY, HAS_ANTHROPIC, caller, arg, queue, batch, result,
                   rows0, fetched, ncalls>>

AddArticle(p) == AddArticleCall(p) \/ AaInsert(p) \/ AaCommit(p)

-----------------------------------------------------------------------------
(* fetch_feed, fetch_all_feeds, refresh_feeds *)

Min(a, b) == IF a < b THEN a ELSE b

RECURSIVE SeqsUpTo(_, _)
SeqsUpTo(S, n) ==
    IF n = 0 THEN {<<>>}
    ELSE LET shorter == SeqsUpTo(S, n - 1)
         IN  shorter \cup {Append(s, x) : s \in {t \in shorter : Len(t) = n - 1}, x \in S}

\* What a feed serves to one feedparser.parse: its entries, each the entry's
\* link (0 when the link is absent or empty), and where an exception is
\* raised: 0 nowhere, k while entry k is processed, Len + 1 in parse itself.
FeedReplies ==
    {r \in [entries : SeqsUpTo(Urls, MaxEntries), raises : 0..(MaxEntries + 1)] :
        r.raises <= Len(r.entries) + 1}

\* Whether fetch_feed's try block raises on this reply: entries past
\* MAX_ARTICLES_PER_FEED are never processed.
FeedRaises(reply) ==
    \/ reply.raises = Len(reply.entries) + 1
    \/ reply.raises \in 1..Min(Len(reply.entries), MAX_ARTICLES_PER_FEED)

\* The article fetch_feed builds from an entry: url is entry.get('link', ''),
\* content a (possibly empty) string, never None.
Normalized(link) == [url |-> link, content |-> Str("text")]

\* Mutant: fetch_feed without its try/except.
FetchFeedNoCatch(reply) ==
    IF FeedRaises(reply)
    THEN Raised("Exception")
    ELSE List([i \in 1..Min(Len(reply.entries), MAX_ARTICLES_PER_FEED) |->
                 Normalized(reply.entries[i])])

\* fetch_feed: the first MAX_ARTICLES_PER_FEED entries, or [] when anything raised.
FetchFeed(reply) ==
    IF FeedRaises(reply)
    THEN List(<<>>)
    ELSE List([i \in 1..Min(Len(reply.entries), MAX_ARTICLES_PER_FEED) |->
                 Normalized(reply.entries[i])])

\* The non-empty links among the entries fetch_feed reads of a reply (what
\* the feed serves, whatever fetch_feed returns).
LinksOf(reply) ==
    {reply.entries[i] : i \in 1..Min(Len(reply.entries), MAX_ARTICLES_PER_FEED)} \ {0}

\* The non-empty urls of a list of articles, and whether one comes twice.
UrlsIn(list) == {list[i].url : i \in 1..Len(list)} \ {0}
HasDuplicate(list) ==
    \E i, j \in 1..Len(list) : i < j /\ list[i].url = list[j].url /\ list[i].url # 0

RefreshCall(p) ==
    /\ Enter(p, "rf_fetch", "refresh")
    /\ UNCHANGED <<articles, lock, clock, API_KEY, HAS_ANTHROPIC, arg, stamp, queue, batch,
                   result, count, fetched, ncalls>>

\* fetch_all_feeds, one feed per step: all_articles.extend(fetch_feed(feed)).
\* An exception leaving fetch_feed would leave fetch_all_feeds and refresh_feeds.
\* Served is what a feed can serve.
FetchFeedStepFrom(p, Served) ==
    /\ pc[p] = "rf_fetch"
    /\ fetched[p].n < Len(FEEDS)
    /\ \E reply \in Served :
        LET r == FetchFeed(reply)
            h == fetched[p]
        IN  IF r.t = "raise"
            THEN /\ pc' = [pc EXCEPT ![p] = "done"]
                 /\ ret' = [ret EXCEPT ![p] = [op |-> "refresh_feeds", val |-> r]]
                 /\ UNCHANGED <<queue, fetched>>
            ELSE /\ queue' = [queue EXCEPT ![p] = @ \o r.v]
                 /\ fetched' = [fetched EXCEPT ![p] =
                        [ n      |-> h.n + 1,
                          failed |-> IF FeedRaises(reply) THEN h.failed + 1 ELSE h.failed,
                          ok     |-> IF FeedRaises(reply) THEN h.ok ELSE h.ok \cup LinksOf(reply),
                          links  |-> h.links \cup UrlsIn(r.v),
                          dup    |-> h.dup \/ HasDuplicate(r.v) \/ h.links \cap UrlsIn(r.v) # {},
                          empty  |-> h.empty \/ \E i \in 1..Len(r.v) : r.v[i].url = 0 ]]
                 /\ pc' = [pc EXCEPT ![p] = IF h.n + 1 = Len(FEEDS) THEN "rf_loop" ELSE "rf_fetch"]
                 /\ ret' = ret
    /\ UNCHANGED <<stamp, articles, lock, clock, API_KEY, HAS_ANTHROPIC, caller, arg, batch,
                   result, count, rows0, ncalls>>

FetchFeedStep(p) == FetchFeedStepFrom(p, FeedReplies)

\* Mutant: refresh_feeds without the test of article.get('url').
RfNextNoUrlTest(p) ==
    /\ pc[p] = "rf_loop"
    /\ queue[p] # <<>>
    /\ queue' = [queue EXCEPT ![p] = Tail(@)]
    /\ arg' = [arg EXCEPT ![p] = Head(queue[p])]
    /\ pc' = [pc EXCEPT ![p] = "aa_insert"]
    /\ UNCHANGED <<stamp, articles, lock, clock, API_KEY, HAS_ANTHROPIC, caller, batch, result,
                   count, ret, rows0, fetched, ncalls>>

\* for article in articles: if article.get('url') and add_article(article): ...
RfNext(p) ==
    /\ pc[p] = "rf_loop"
    /\ queue[p] # <<>>
    /\ queue' = [queue EXCEPT ![p] = Tail(@)]
    /\ IF Head(queue[p]).url # 0
       THEN /\ arg' = [arg EXCEPT ![p] = Head(queue[p])]
            /\ pc' = [pc EXCEPT ![p] = "aa_insert"]
       ELSE UNCHANGED <<arg, pc>>
    /\ UNCHANGED <<stamp, articles, lock, clock, API_KEY, HAS_ANTHROPIC, caller, batch, result,
                   count, ret, rows0, fetched, ncalls>>

\* return new_count
RfReturn(p) ==
    /\ pc[p] = "rf_loop"
    /\ queue[p] = <<>>
    /\ pc' = [pc EXCEPT ![p] = "done"]
    /\ ret' = [ret EXCEPT ![p] = [op |-> "refresh_feeds", val |-> Num(count[p])]]
    /\ UNCHANGED <<stamp, articles, lock, clock, API_KEY, HAS_ANTHROPIC, caller, arg, queue,
                   batch, result, count, rows0, fetched, ncalls>>

RefreshFeeds(p) == RefreshCall(p) \/ FetchFeedStep(p) \/ RfNext(p) \/ RfReturn(p)

-----------------------------------------------------------------------------
(* update_article, get_unprocessed_articles *)

\* The value sqlite3 binds for a Python value: update_article turns a list
\* into its JSON text first.
Bound(value) == IF value.t = "list" THEN Str(JsonDumps(value.v)) ELSE value

\* update_article(article_id, updates): one UPDATE per key, all in one
\* transaction, committed at the end.  updates is a function from column
\* names to values; a row that does not exist is not touched.
UpdateArticle(rows, article_id, updates) ==
    [i \in 1..Len(rows) |->
        IF i = article_id
        THEN [col \in DOMAIN rows[i] |->
                IF col \in DOMAIN updates THEN Bound(updates[col]) ELSE rows[i][col]]
        ELSE rows[i]]

\* The sequences that list every element of S once.
RECURSIVE Perms(_)
Perms(S) ==
    IF S = {} THEN {<<>>}
    ELSE UNION {{<<x>> \o s : s \in Perms(S \ {x})} : x \in S}

Take(s, n) == SubSeq(s, 1, Min(Len(s), n))

\* Mutant: the query without WHERE summary IS NULL.
UnprocessedAnyRow(rows) == 1..Len(rows)

\* WHERE summary IS NULL
Unprocessed(rows) == {i \in 1..Len(rows) : IsNull(rows[i].summary)}

\* Mutant: ORDER BY fetched_date (ascending).
OrderedByFetchedAsc(rows, s) ==
    \A i, j \in 1..Len(s) : i < j => rows[s[i]].fetched_date <= rows[s[j]].fetched_date

\* ORDER BY fetched_date DESC: rows of equal fetched_date come in any order.
OrderedByFetched(rows, s) ==
    \A i, j \in 1..Len(s) : i < j => rows[s[i]].fetched_date >= rows[s[j]].fetched_date

\* The orderings of the rows S the ORDER BY allows: a row comes first when it
\* may precede every other.
RECURSIVE Orderings(_, _)
Orderings(rows, S) ==
    IF S = {} THEN {<<>>}
    ELSE LET first == {x \in S : \A y \in S \ {x} : OrderedByFetched(rows, <<x, y>>)}
         IN  UNION {{<<x>> \o s : s \in Orderings(rows, S \ {x})} : x \in first}

\* Mutant: the query without ORDER BY: the rows come in any order.
GetUnprocessedArticlesAnyOrder(rows, limit) ==
    {Take(s, limit) : s \in Perms(Unprocessed(rows))}

\* get_unprocessed_articles(limit): the ids, in order, of each result the
\* query can give.
GetUnprocessedArticles(rows, limit) ==
    {Take(s, limit) : s \in Orderings(rows, Unprocessed(rows))}

-----------------------------------------------------------------------------
(* analyze_article *)

Dict(d) == [t |-> "dict", v |-> d]

SUMMARY == "summary"
CATEGORY == "category"
SENTIMENT == "sentiment"
SCORE == "sentiment_score"
BUBBLE == "bubble_indicators"

\* The labels the prompt asks for.  A score is in tenths: -10..10 is
\* [-1.0, 1.0].
Sentiments == {"Bullish", "Neutral", "Bearish"}
Categories == {"AI Funding", "AI Valuations", "AI Layoffs", "AI Products",
               "AI Research", "AI Regulation", "AI Market"}

\* Objects json.loads can return for the span: the service is asked for the
\* five fields and free to answer otherwise.
FullObject ==
    (SUMMARY :> Str("s")) @@ (CATEGORY :> Str("AI Market")) @@ (SENTIMENT :> Str("Bullish"))
        @@ (SCORE :> Num(5)) @@ (BUBBLE :> List(<<"x", "y">>))
        @@ ("investment_relevance" :> Str("r"))
OffLabelObject ==
    (SUMMARY :> Str("s")) @@ (SENTIMENT :> Str("Positive")) @@ (SCORE :> Num(20))
        @@ (BUBBLE :> Str("none"))
NoSummaryObject == (SUMMARY :> None) @@ ("investment_relevance" :> Str("r"))
EmptyObject == [k \in {} |-> None]

ParsedObjects == {FullObject, OffLabelObject, NoSummaryObject, EmptyObject}

\* What client.messages.create gives: an exception, or a text of which the
\* code looks at find('{'), rfind('}') and the span between them; loads is
\* what json.loads makes of that span.
Invalid == [t |-> "invalid"]
Replies ==
    {[status |-> "error", find |-> -1, rfind |-> -1, loads |-> Invalid]}
    \cup {[status |-> "ok", find |-> f, rfind |-> r, loads |-> Invalid] :
            f \in {-1, 4}, r \in {-1, 2}}
    \cup {[status |-> "ok", find |-> 4, rfind |-> 9, loads |-> x] :
            x \in {Invalid} \cup {Dict(d) : d \in ParsedObjects}}

\* Mutant: the credential is not looked at.
DisabledIgnoresKey == ~HAS_ANTHROPIC

\* if not API_KEY or not HAS_ANTHROPIC: return None
Disabled == API_KEY = "" \/ ~HAS_ANTHROPIC

\* The prompt's article.get('content', '')[:2500]: the row has the key
\* content, so get returns its value, and None[:2500] raises TypeError.
PromptRaises(article) == IsNull(article.content)

\* The try block of analyze_article on the service's reply.
ParseReply(reply) ==
    IF reply.status = "error" THEN None
    ELSE LET start == reply.find
             end == reply.rfind + 1
         IN  IF start >= 0 /\ end > start
             THEN (IF reply.loads.t = "dict" THEN reply.loads ELSE None)
             ELSE None

\* analyze_article(article) when the service answers reply.
AnalyzeArticle(article, reply) ==
    IF Disabled THEN None
    ELSE IF PromptRaises(article) THEN Raised("TypeError")
    ELSE ParseReply(reply)

\* Whether analyze_article reaches client.messages.create.
CallsService(article) == ~Disabled /\ ~PromptRaises(article)

\* Mutant: the result is used without the test.
HasResultAny(r) == r.t # "raise"

\* if result: (a dict is truthy when it has a key)
HasResult(r) == r.t = "dict" /\ DOMAIN r.v # {}

\* The updates process_unanalyzed passes to update_article for a result.
AnalysisUpdates(r) ==
    LET bubble == Get(r.v, BUBBLE, List(<<>>))
    IN  (SUMMARY :> Get(r.v, SUMMARY, None)) @@ (CATEGORY :> Get(r.v, CATEGORY, None))
        @@ (SENTIMENT :> Get(r.v, SENTIMENT, None)) @@ (SCORE :> Get(r.v, SCORE, None))
        @@ (BUBBLE :> IF bubble.t = "list" THEN Str(JsonDumps(bubble.v)) ELSE bubble)

-----------------------------------------------------------------------------
(* process_unanalyzed *)

\* Mutant: get_unprocessed_articles() called with its default limit.
PuCallDefaultLimit(p) ==
    /\ Enter(p, "pu_loop", "none")
    /\ \E r \in GetUnprocessedArticles(articles, 10) :
        batch' = [batch EXCEPT ![p] =
                    [i \in 1..Len(r) |-> [id |-> r[i], content |-> articles[r[i]].content]]]
    /\ UNCHANGED <<articles, lock, clock, API_KEY, HAS_ANTHROPIC, arg, stamp, queue, result,
                   count, fetched, ncalls>>

\* articles = get_unprocessed_articles(limit=5); processed = 0
\* Of each returned row the loop reads the id and the content.
PuCall(p) ==
    /\ Enter(p, "pu_loop", "none")
    /\ \E r \in GetUnprocessedArticles(articles, BATCH_SIZE) :
        batch' = [batch EXCEPT ![p] =
                    [i \in 1..Len(r) |-> [id |-> r[i], content |-> articles[r[i]].content]]]
    /\ UNCHANGED <<articles, lock, clock, API_KEY, HAS_ANTHROPIC, arg, stamp, queue, result,
                   count, fetched, ncalls>>

\* result = analyze_article(article); an exception leaves process_unanalyzed,
\* a falsy result skips the article.  answers[id] is what the service
\* can answer for the article with that id.
PuAnalyzeFrom(p, answers) ==
    /\ pc[p] = "pu_loop"
    /\ batch[p] # <<>>
    /\ \E reply \in answers[Head(batch[p]).id] :
        LET a == Head(batch[p])
            r == AnalyzeArticle(a, reply)
        IN  /\ ncalls' = [ncalls EXCEPT ![p] = IF CallsService(a) THEN @ + 1 ELSE @]
            /\ IF r.t = "raise"
               THEN /\ pc' = [pc EXCEPT ![p] = "done"]
                    /\ ret' = [ret EXCEPT ![p] = [op |-> "process_unanalyzed", val |-> r]]
                    /\ UNCHANGED <<batch, result>>
               ELSE IF HasResult(r)
               THEN /\ pc' = [pc EXCEPT ![p] = "pu_update"]
                    /\ result' = [result EXCEPT ![p] = r]
                    /\ UNCHANGED <<ret, batch>>
               ELSE /\ batch' = [batch EXCEPT ![p] = Tail(@)]
                    /\ result' = [result EXCEPT ![p] = r]
                    /\ UNCHANGED <<pc, ret>>
    /\ UNCHANGED <<stamp, articles, lock, clock, API_KEY, HAS_ANTHROPIC, caller, arg, queue,
                   count, rows0, fetched>>

\* The service answers anything.
AnyReply == [id \in Nat |-> Replies]

PuAnalyze(p) == PuAnalyzeFrom(p, AnyReply)

\* update_article(article['id'], {...}); processed += 1
PuUpdate(p) ==
    /\ pc[p] = "pu_update"
    /\ CanWrite(p)
    /\ articles' = UpdateArticle(articles, Head(batch[p]).id, AnalysisUpdates(result[p]))
    /\ count' = [count EXCEPT ![p] = @ + 1]
    /\ batch' = [batch EXCEPT ![p] = Tail(@)]
    /\ pc' = [pc EXCEPT ![p] = "pu_loop"]
    /\ UNCHANGED <<stamp, lock, clock, API_KEY, HAS_ANTHROPIC, caller, arg, queue, ret, rows0,
                   fetched, ncalls, result>>

\* return processed
PuReturn(p) ==
    /\ pc[p] = "pu_loop"
    /\ batch[p] = <<>>
    /\ pc' = [pc EXCEPT ![p] = "done"]
    /\ ret' = [ret EXCEPT ![p] = [op |-> "process_unanalyzed", val |-> Num(count[p])]]
    /\ UNCHANGED <<stamp, articles, lock, clock, API_KEY, HAS_ANTHROPIC, caller, arg, queue,
                   batch, result, count, rows0, fetched, ncalls>>

ProcessUnanalyzed(p) == PuCall(p) \/ PuAnalyze(p) \/ PuUpdate(p) \/ PuReturn(p)

-----------------------------------------------------------------------------
(* get_stats *)

\* Mutant: the query without WHERE ... IS NOT NULL.
GroupCountAll(rows, col) ==
    LET keys == {rows[i][col] : i \in 1..Len(rows)}
    IN  [k \in keys |-> Cardinality({i \in 1..Len(rows) : rows[i][col] = k})]

\* SELECT col, COUNT(*) FROM articles WHERE col IS NOT NULL GROUP BY col,
\* read into a dict: one entry per value, its count.
GroupCount(rows, col) ==
    LET kept == {i \in 1..Len(rows) : ~IsNull(rows[i][col])}
        keys == {rows[i][col] : i \in kept}
    IN  [k \in keys |-> Cardinality({i \in kept : rows[i][col] = k})]

\* get_stats()
GetStats(rows) ==
    [ sentiment  |-> GroupCount(rows, SENTIMENT),
      categories |-> GroupCount(rows, CATEGORY),
      total      |-> Len(rows) ]

-----------------------------------------------------------------------------
(* get_article, get_articles, update_article called by a client of the store *)

\* get_article(article_id): dict(row), every column as SQLite holds it, or
\* None when no row has the id.
GetArticle(rows, article_id) ==
    IF article_id \in 1..Len(rows) THEN rows[article_id] ELSE None

\* The rows get_articles' WHERE clause keeps: a filter that is falsy (None,
\* '') is not applied.
Filtered(rows, sentiment, category) ==
    {i \in 1..Len(rows) :
        /\ Truthy(sentiment) => rows[i].sentiment = sentiment
        /\ Truthy(category) => rows[i].category = category}

\* get_articles(limit, sentiment, category): the ids, in order, of each
\* result the query can give; each row is read as get_article reads it.
\* published_date, which orders the result, is not in the model: any order.
GetArticles(rows, limit, sentiment, category) ==
    {Take(s, limit) : s \in Perms(Filtered(rows, sentiment, category))}

\* The strings a list holds.
Items == {"x", "y"}

\* update_article(article_id, {'bubble_indicators': s}) for a list s of
\* strings: one transaction.
UpdateArticleCall(p) ==
    /\ pc[p] = "idle"
    /\ CanWrite(p)
    /\ \E article_id \in Ids, s \in SeqsUpTo(Items, MaxItems) :
        LET updates == (BUBBLE :> List(s))
        IN  /\ articles' = UpdateArticle(articles, article_id, updates)
            /\ arg' = [arg EXCEPT ![p] = [id |-> article_id, updates |-> updates]]
    /\ pc' = [pc EXCEPT ![p] = "done"]
    /\ ret' = [ret EXCEPT ![p] = [op |-> "update_article", val |-> None]]
    /\ UNCHANGED <<lock, clock, API_KEY, HAS_ANTHROPIC, caller, stamp, queue, batch, result,
                   count, rows0, fetched, ncalls>>

-----------------------------------------------------------------------------
(* The routes that write *)

\* GET /api/article/<id>: get_article, and update_article(id, {'is_read': 1})
\* when the row exists.
ApiArticle(p) ==
    /\ pc[p] = "idle"
    /\ pc' = [pc EXCEPT ![p] = "done"]
    /\ CanWrite(p)
    /\ \E article_id \in 1..(Len(articles) + 1) :
        /\ articles' = IF article_id \in Ids
                       THEN UpdateArticle(articles, article_id, ("is_read" :> Num(1)))
                       ELSE articles
        /\ ret' = [ret EXCEPT ![p] =
                    [op |-> "api_article",
                     val |-> IF article_id \in Ids THEN Num(article_id) ELSE None]]
    /\ UNCHANGED <<lock, clock, API_KEY, HAS_ANTHROPIC, caller, arg, stamp, queue,
                   batch, result, count, rows0, fetched, ncalls>>

\* POST /api/config with an api_key: API_KEY = data['api_key']
ApiConfig(p) ==
    /\ pc[p] = "idle"
    /\ pc' = [pc EXCEPT ![p] = "done"]
    /\ \E key \in {"", "key"} :
        /\ key # API_KEY
        /\ API_KEY' = key
    /\ ret' = [ret EXCEPT ![p] = [op |-> "api_config", val |-> None]]
    /\ UNCHANGED <<stamp, articles, lock, clock, HAS_ANTHROPIC, caller, arg, queue, batch,
                   result, count, rows0, fetched, ncalls>>

-----------------------------------------------------------------------------
(* Specifications *)

\* Every operation, by every request thread.
Next ==
    \E p \in Procs :
        \/ AddArticle(p) \/ RefreshFeeds(p) \/ ProcessUnanalyzed(p)
        \/ ApiArticle(p) \/ ApiConfig(p) \/ Leave(p)

Spec == Init /\ [][Next]_vars

\* The pipelines below do not read HAS_ANTHROPIC.
InitInstalled == Init /\ HAS_ANTHROPIC

\* add_article under concurrent requests.
NextStore == \E p \in Procs : AddArticle(p) \/ Leave(p)

SpecStore == InitInstalled /\ [][NextStore]_vars

\* The ingestion pipeline, one invocation at a time.
NextIngest == RefreshFeeds(1) \/ AaInsert(1) \/ AaCommit(1) \/ Leave(1)

SpecIngest == InitInstalled /\ [][NextIngest]_vars

\* The enrichment pipeline, one invocation at a time, over a store filled
\* by add_article, with the credential set and cleared.
NextEnrich == AddArticle(1) \/ ProcessUnanalyzed(1) \/ ApiConfig(1) \/ Leave(1)

SpecEnrich == Init /\ [][NextEnrich]_vars

\* The store under a client that inserts articles and updates
\* bubble_indicators with lists.
NextRoundTrip == AddArticle(1) \/ UpdateArticleCall(1) \/ Leave(1)

SpecRoundTrip == InitInstalled /\ [][NextRoundTrip]_vars

\* The core operations that write, one at a time: add_article,
\* refresh_feeds, process_unanalyzed, the detail view, and the credential.
NextCore ==
    \/ AddArticle(1) \/ RefreshFeeds(1) \/ ProcessUnanalyzed(1)
    \/ ApiArticle(1) \/ ApiConfig(1) \/ Leave(1)

SpecCore == InitInstalled /\ [][NextCore]_vars

\* A credential from the environment, the client library installed.
InitConfigured == InitEnv("key") /\ HAS_ANTHROPIC

\* The service answers every article with the object it was asked for.
Answered == [id \in Nat |-> {r \in Replies : r.loads = Dict(FullObject)}]

\* Two request threads run process_unanalyzed over articles with content,
\* which thread 1 inserts; the service answers every call.
NextRace ==
    \/ AddArticleCallFrom(1, Urls, {Str("text")}) \/ AaInsert(1) \/ AaCommit(1)
    \/ \E p \in Procs :
        \/ PuCall(p) \/ PuAnalyzeFrom(p, Answered) \/ PuUpdate(p) \/ PuReturn(p)
        \/ Leave(p)

SpecRace == InitConfigured /\ [][NextRace]_vars

\* The store holds at most one article more than a batch takes.
Backlog == BATCH_SIZE + 1

\* add_article of an article with content and a url not stored, while the
\* backlog has room.
AddFresh(p) ==
    /\ Len(articles) < Backlog
    /\ AddArticleCallFrom(p, {Len(articles) + 1}, {Str("text")})

\* Repeated invocations of process_unanalyzed, one at a time, over a store
\* add_article fills; the service answers every call.
NextDrain ==
    \/ AddFresh(1) \/ AaInsert(1) \/ AaCommit(1)
    \/ PuCall(1) \/ PuAnalyzeFrom(1, Answered) \/ PuUpdate(1) \/ PuReturn(1)
    \/ Leave(1)

\* A step in which thread p invokes process_unanalyzed.
PuInvoked(p) == pc[p] = "idle" /\ pc'[p] = "pu_loop"

\* A call that started runs to its end (every operation is synchronous).
Completes(p) ==
    WF_vars(\/ AaInsert(p) \/ AaCommit(p) \/ Leave(p)
            \/ PuAnalyze(p) \/ PuUpdate(p) \/ PuReturn(p))

\* process_unanalyzed is invoked again and again.
FairDrain == Completes(1) /\ []<><<PuInvoked(1)>>_vars

SpecDrain == InitConfigured /\ [][NextDrain]_vars /\ FairDrain

\* The service answers the first article stored whenever it is asked, and
\* fails on every attempt for every other article.
AnswersFirst ==
    [id \in Nat |-> IF id = 1 THEN Answered[id] ELSE {r \in Replies : r.status = "error"}]

\* Repeated invocations of process_unanalyzed, one at a time, over a store
\* add_article fills, when the service fails for all but the oldest article.
NextStarve ==
    \/ AddFresh(1) \/ AaInsert(1) \/ AaCommit(1)
    \/ PuCall(1) \/ PuAnalyzeFrom(1, AnswersFirst) \/ PuUpdate(1) \/ PuReturn(1)
    \/ Leave(1)

SpecStarve == InitConfigured /\ [][NextStarve]_vars /\ FairDrain

\* The other request thread.
Other(p) == CHOOSE q \in Procs : q # p

\* A feed that serves at most one entry.
OneEntry == {r \in FeedReplies : Len(r.entries) <= 1}

\* Two request threads run refresh_feeds over such feeds, in rounds: a thread starts an
\* invocation while the other is idle or running one, and the results of a
\* round are dropped once no invocation is running.
NextIngestPair ==
    \E p \in Procs :
        \/ (pc[Other(p)] # "done" /\ RefreshCall(p))
        \/ FetchFeedStepFrom(p, OneEntry) \/ RfNext(p) \/ RfReturn(p)
        \/ AaInsert(p) \/ AaCommit(p)
        \/ (pc[Other(p)] \in {"idle", "done"} /\ Leave(p))

SpecIngestPair == InitInstalled /\ [][NextIngestPair]_vars

-----------------------------------------------------------------------------
(* The article store: uniqueness of url *)

UrlsOf(rows) == {rows[i].url : i \in 1..Len(rows)}
RowsWithUrl(u) == {i \in Ids : articles[i].url = u}

\* The urls the table held when thread p's running call started: rows are
\* only ever appended.
UrlsAtStart(p) == {articles[i].url : i \in 1..rows0[p]}

AddDone(p) == pc[p] = "done" /\ ret[p].op = "add_article"

\* C1: no two stored articles share a url; an add_article call never raises;
\* after it exactly one row holds its url; it returns None when the url was
\* stored before the call, and an id it returns is the id of a row added
\* during the call that holds the url.
C1_UrlUnique ==
    /\ \A i, j \in Ids : i # j => articles[i].url # articles[j].url
    /\ \A p \in Procs : AddDone(p) =>
        /\ ret[p].val.t \in {"null", "num"}
        /\ Cardinality(RowsWithUrl(arg[p].url)) = 1
        /\ arg[p].url \in UrlsAtStart(p) => ret[p].val = None
        /\ ret[p].val.t = "num" =>
            /\ ret[p].val.v \in Ids
            /\ ret[p].val.v > rows0[p]
            /\ articles[ret[p].val.v].url = arg[p].url
        /\ (ret[p].val = None /\ Len(articles) = rows0[p]) => arg[p].url \in UrlsAtStart(p)

\* A second add_article of a stored url has returned the duplicate result.
C1_Witness ==
    \E p \in Procs :
        /\ AddDone(p)
        /\ ret[p].val = None
        /\ arg[p].url \in UrlsAtStart(p)
        /\ Len(articles) = rows0[p]

-----------------------------------------------------------------------------
(* The analysis columns *)

AnalysisColumns == {SUMMARY, CATEGORY, SENTIMENT, SCORE, BUBBLE}

\* C3: enrichment is all-or-nothing: of every stored article the five
\* analysis fields are all null or all non-null.
C3_AllOrNothing ==
    \A i \in Ids :
        \/ \A col \in AnalysisColumns : IsNull(articles[i][col])
        \/ \A col \in AnalysisColumns : ~IsNull(articles[i][col])

\* C4: of every stored article sentiment is one of the three labels or null,
\* category one of the seven labels or null, and sentiment_score, when
\* sentiment is non-null, within [-1.0, 1.0] or null.
C4_LabelsInRange ==
    \A i \in Ids :
        LET row == articles[i]
        IN  /\ IsNull(row.sentiment) \/ (row.sentiment.t = "str" /\ row.sentiment.v \in Sentiments)
            /\ IsNull(row.category) \/ (row.category.t = "str" /\ row.category.v \in Categories)
            /\ ~IsNull(row.sentiment) =>
                \/ IsNull(row.sentiment_score)
                \/ (row.sentiment_score.t = "num" /\ row.sentiment_score.v \in -10..10)

-----------------------------------------------------------------------------
(* get_unprocessed_articles *)

\* C5: for every limit, every result of get_unprocessed_articles(limit) lists
\* min(limit, number of null-summary articles) distinct articles, each with a
\* null summary, in descending fetched_date order, and no null-summary
\* article left out was fetched later than one returned.
C5_Unprocessed ==
    \A limit \in 0..BATCH_SIZE :
        \A r \in GetUnprocessedArticles(articles, limit) :
            LET nulls == {i \in Ids : IsNull(articles[i].summary)}
                got == {r[k] : k \in 1..Len(r)}
            IN  /\ Len(r) = Min(limit, Cardinality(nulls))
                /\ Cardinality(got) = Len(r)
                /\ got \subseteq nulls
                /\ \A k \in 1..(Len(r) - 1) :
                        articles[r[k]].fetched_date >= articles[r[k + 1]].fetched_date
                /\ \A i \in nulls \ got : \A k \in got :
                        articles[i].fetched_date <= articles[k].fetched_date

\* process_unanalyzed has selected two unprocessed articles fetched at
\* different times, between which a limit of 1 must choose.
C5_Witness ==
    /\ \E i, j \in Ids :
        /\ IsNull(articles[i].summary) /\ IsNull(articles[j].summary)
        /\ articles[i].fetched_date < articles[j].fetched_date
    /\ pc[1] = "pu_loop" /\ Len(batch[1]) = 2

-----------------------------------------------------------------------------
(* refresh_feeds *)

RefreshDone(p) == pc[p] = "done" /\ ret[p].op = "refresh_feeds"

\* C6: refresh_feeds returns the number of rows it added, which is the number
\* of distinct non-empty urls it fetched that were not stored before: a
\* stored url counts 0, a url fetched several times counts once, and a
\* refresh that fetches only stored urls returns 0.
C6_NewCount ==
    RefreshDone(1) =>
        /\ ret[1].val = Num(Len(articles) - rows0[1])
        /\ ret[1].val = Num(Cardinality(fetched[1].links \ UrlsAtStart(1)))

\* A refresh that fetched one new url more than once has returned 1.
C6_Witness ==
    /\ RefreshDone(1)
    /\ fetched[1].dup
    /\ ret[1].val = Num(1)

\* C8: whichever feeds fail, refresh_feeds returns a count, the urls it
\* collected are exactly those the feeds that did not fail served, and each
\* of them is stored when it returns.
C8_FeedFailureIsolated ==
    /\ pc[1] \in {"rf_loop", "aa_insert", "aa_commit"} => fetched[1].links = fetched[1].ok
    /\ RefreshDone(1) =>
        /\ ret[1].val.t = "num"
        /\ fetched[1].n = Len(FEEDS)
        /\ fetched[1].links = fetched[1].ok
        /\ fetched[1].ok \subseteq UrlsOf(articles)

\* One feed failed, another served a new article, and the refresh stored it.
C8_Witness ==
    /\ RefreshDone(1)
    /\ fetched[1].failed = 1
    /\ fetched[1].ok # {}
    /\ ret[1].val = Num(1)

-----------------------------------------------------------------------------
(* process_unanalyzed *)

PuDone(p) == pc[p] = "done" /\ ret[p].op = "process_unanalyzed"
InPu(p) == pc[p] \in {"pu_loop", "pu_update"}

\* C7: with API_KEY empty, process_unanalyzed makes no outbound call, changes
\* no stored article, and returns 0.
C7_NoCredential ==
    /\ [](API_KEY = "" =>
            /\ InPu(1) => (ncalls[1] = 0 /\ count[1] = 0)
            /\ PuDone(1) => (ncalls[1] = 0 /\ ret[1].val = Num(0)))
    /\ [][(API_KEY = "" /\ (InPu(1) \/ InPu(1)')) => articles' = articles]_vars

\* Without a credential, an invocation over a store holding an unprocessed
\* article with content has returned.
C7_Witness ==
    /\ PuDone(1)
    /\ API_KEY = ""
    /\ HAS_ANTHROPIC
    /\ rows0[1] >= 1
    /\ \E i \in Ids : IsNull(articles[i].summary) /\ ~IsNull(articles[i].content)

\* C9: with a credential configured, process_unanalyzed never propagates an
\* error: it returns a count for every stored article and every outcome of
\* the external call.
C9_NeverRaises ==
    \A p \in Procs : ret[p].op = "process_unanalyzed" => ret[p].val.t = "num"

\* C10: when analyze_article yields None for an article, the step changes no
\* stored article and does not count it, goes on with the rest of the batch,
\* and the article is still unprocessed.
C10_NoResultSkips ==
    [][( /\ pc[1] = "pu_loop" /\ batch[1] # <<>>
         /\ pc'[1] # "done"
         /\ result'[1] = None )
       => /\ articles' = articles
          /\ count' = count
          /\ pc'[1] = "pu_loop"
          /\ batch'[1] = Tail(batch[1])
          /\ Head(batch[1]).id \in Unprocessed(articles')]_vars

\* The service was called for two articles, one yielded nothing and is still
\* unprocessed with every analysis field null, the other was enriched.
C10_Witness ==
    /\ PuDone(1)
    /\ ncalls[1] = 2
    /\ ret[1].val = Num(1)
    /\ \E i \in Ids : \A col \in AnalysisColumns : IsNull(articles[i][col])
    /\ \E i \in Ids : ~IsNull(articles[i].summary)

-----------------------------------------------------------------------------
(* process_unanalyzed: the returned count *)

\* The articles a step enriches: unprocessed before it, not after it.
Enriched(before, after) == Unprocessed(before) \ Unprocessed(after)

\* C11: without concurrent invocations, the count process_unanalyzed returns
\* is the number of articles that were unprocessed before the invocation and
\* are enriched after it, and is at most the batch size: the count starts at
\* 0, every step of the invocation adds to it the number of articles the
\* step enriches, and the count is what is returned.
C11_CountIsEnriched ==
    /\ [](InPu(1) => count[1] <= BATCH_SIZE)
    /\ [](PuDone(1) /\ ret[1].val.t = "num" =>
            ret[1].val.v = count[1] /\ ret[1].val.v <= BATCH_SIZE)
    /\ [][(pc[1] = "idle" /\ InPu(1)') => count'[1] = 0]_vars
    /\ [][(InPu(1) /\ pc'[1] # "idle") =>
            count'[1] - count[1] = Cardinality(Enriched(articles, articles'))]_vars

-----------------------------------------------------------------------------
(* Sequence-typed fields *)

UpdateDone(p) == pc[p] = "done" /\ ret[p].op = "update_article"

\* C12: after update_article(id, {bubble_indicators: s}) for a sequence of
\* strings s, reading the article back with get_article, get_articles or
\* get_unprocessed_articles yields bubble_indicators as the sequence s, not
\* its textual encoding.
C12_RoundTrip ==
    UpdateDone(1) =>
        LET id == arg[1].id
            s == arg[1].updates[BUBBLE]
        IN  /\ GetArticle(articles, id).bubble_indicators = s
            /\ \A r \in GetArticles(articles, Len(articles), None, None) :
                    \A k \in 1..Len(r) :
                        r[k] = id => GetArticle(articles, r[k]).bubble_indicators = s
            /\ \A r \in GetUnprocessedArticles(articles, Len(articles)) :
                    \A k \in 1..Len(r) :
                        r[k] = id => GetArticle(articles, r[k]).bubble_indicators = s

-----------------------------------------------------------------------------
(* Lifecycle: articles are never deleted or re-keyed *)

\* C13: no core operation deletes or re-keys an article: in every step the
\* stored (id, url) pairs are kept, and a step in which add_article reports
\* a duplicate (it returns without a commit) leaves every row as it was.
C13_NeverDeleted ==
    /\ [][/\ Len(articles') >= Len(articles)
          /\ \A i \in Ids : articles'[i].url = articles[i].url]_vars
    /\ [][(pc[1] = "aa_insert" /\ pc'[1] \in {"done", "rf_loop"}) =>
            articles' = articles]_vars

\* add_article has reported a duplicate of an article that is enriched and
\* was read.
C13_Witness ==
    /\ AddDone(1)
    /\ ret[1].val = None
    /\ \E i \in Ids :
        /\ articles[i].url = arg[1].url
        /\ ~IsNull(articles[i].summary)
        /\ articles[i].is_read = Num(1)

-----------------------------------------------------------------------------
(* refresh_feeds: entries without a link *)

\* C14: the ingestion pipeline never stores an article with an empty url:
\* after any sequence of refresh_feeds invocations every stored article has
\* a non-empty url, no article passed to add_article has an empty url, and
\* the returned count does not exceed the number of distinct non-empty urls
\* collected.
C14_NoEmptyUrl ==
    /\ \A i \in Ids : articles[i].url # 0
    /\ pc[1] \in {"aa_insert", "aa_commit"} => arg[1].url # 0
    /\ RefreshDone(1) =>
        /\ ret[1].val.t = "num"
        /\ ret[1].val.v <= Cardinality(fetched[1].links)

\* A refresh that collected an entry without a link and an entry with a new
\* link has returned 1, and the store holds one article.
C14_Witness ==
    /\ RefreshDone(1)
    /\ fetched[1].empty
    /\ rows0[1] = 0
    /\ ret[1].val = Num(1)
    /\ Len(articles) = 1

-----------------------------------------------------------------------------
(* get_stats *)

RECURSIVE SumOf(_)
SumOf(f) ==
    IF DOMAIN f = {} THEN 0
    ELSE LET k == CHOOSE x \in DOMAIN f : TRUE
         IN  f[k] + SumOf([x \in DOMAIN f \ {k} |-> f[x]])

\* C15: in every reachable state get_stats returns total equal to the number
\* of stored articles, a sentiment map whose counts sum to the number of
\* articles with non-null sentiment, a category map whose counts sum to the
\* number of articles with non-null category, no entry for null and none
\* with count 0; on an empty store the maps are empty and total is 0.
C15_Stats ==
    LET stats == GetStats(articles)
    IN  /\ stats.total = Len(articles)
        /\ SumOf(stats.sentiment) = Cardinality({i \in Ids : ~IsNull(articles[i].sentiment)})
        /\ SumOf(stats.categories) = Cardinality({i \in Ids : ~IsNull(articles[i].category)})
        /\ \A k \in DOMAIN stats.sentiment : ~IsNull(k) /\ stats.sentiment[k] > 0
        /\ \A k \in DOMAIN stats.categories : ~IsNull(k) /\ stats.categories[k] > 0
        /\ articles = <<>> =>
            /\ DOMAIN stats.sentiment = {}
            /\ DOMAIN stats.categories = {}
            /\ stats.total = 0

\* Of two stored articles one has a sentiment and no category, the other
\* neither: the sentiment map has one entry, the category map none.
C15_Witness ==
    /\ Len(articles) = 2
    /\ GetStats(articles).sentiment = (Str("Positive") :> 1)
    /\ DOMAIN GetStats(articles).categories = {}
    /\ \E i \in Ids : IsNull(articles[i].sentiment)

-----------------------------------------------------------------------------
(* process_unanalyzed under concurrent invocations *)

\* What a step adds to the count of thread p's running invocation.
Counted(p) == IF InPu(p) /\ pc'[p] # "idle" THEN count'[p] - count[p] ELSE 0

Updating == {p \in Procs : pc[p] = "pu_update" /\ pc'[p] = "pu_loop"}

-----------------------------------------------------------------------------
(* process_unanalyzed: draining the backlog *)

\* The unprocessed articles the store held when thread p's running
\* invocation started, where every result applied has a summary: those still
\* unprocessed and those the invocation has enriched.
UnprocessedAtStart(p) == Cardinality(Unprocessed(articles)) + count[p]

\* C17: when the enrichment client returns a result with a non-null summary
\* for every article, an invocation of process_unanalyzed on a store with n
\* unprocessed articles enriches exactly min(5, n) of them (it selects that
\* many, every step adds to the count what it enriches, and it returns the
\* count), and repeated invocations lead from any backlog to a state where
\* no article is unprocessed and process_unanalyzed returns 0.
C17_Drains ==
    /\ []((InPu(1) \/ PuDone(1)) =>
            count[1] + Len(batch[1]) = Min(5, UnprocessedAtStart(1)))
    /\ [](PuDone(1) => ret[1].val = Num(Min(5, UnprocessedAtStart(1))))
    /\ [][Counted(1) = Cardinality(Enriched(articles, articles'))]_vars
    /\ (Unprocessed(articles) # {}) ~>
            (PuDone(1) /\ ret[1].val = Num(0) /\ Unprocessed(articles) = {})

\* An invocation on a store with six unprocessed articles has enriched five.
C17_Witness ==
    /\ PuDone(1)
    /\ ret[1].val = Num(5)
    /\ Cardinality(Unprocessed(articles)) = 1
    /\ Cardinality({i \in Ids : ~IsNull(articles[i].summary)}) = 5

-----------------------------------------------------------------------------
(* process_unanalyzed: which articles a batch takes *)

\* The unprocessed articles fetched later than article i, and those other
\* than i fetched no earlier.
Later(i) ==
    {j \in Unprocessed(articles) : articles[j].fetched_date > articles[i].fetched_date}
NotEarlier(i) ==
    {j \in Unprocessed(articles) \ {i} : articles[j].fetched_date >= articles[i].fetched_date}

\* C18 as stated: under repeated invocations, an unprocessed article for
\* which the enrichment client would return a result (the first one stored)
\* is eventually enriched, also when articles fetched later fail on every
\* attempt.
C18_NoStarvation ==
    (1 \in Unprocessed(articles)) ~> (1 \in Ids /\ ~IsNull(articles[1].summary))

\* C18 as amended: an invocation of process_unanalyzed selects an
\* unprocessed article whenever fewer than 5 other unprocessed articles were
\* fetched at or after it, and does not select it when 5 or more unprocessed
\* articles were fetched later; an article that is not selected is not sent
\* to the client and stays as it is.
C18_SelectedWhenRecent ==
    /\ [][PuInvoked(1) =>
            LET selected == {batch'[1][k].id : k \in 1..Len(batch'[1])}
            IN  \A i \in Unprocessed(articles) :
                    /\ Cardinality(NotEarlier(i)) < 5 => i \in selected
                    /\ Cardinality(Later(i)) >= 5 => i \notin selected]_vars
    /\ [][\A i \in Ids :
            (InPu(1) /\ InPu(1)' /\ \A k \in 1..Len(batch[1]) : batch[1][k].id # i)
                => articles'[i] = articles[i]]_vars

\* An invocation over six unprocessed articles has called the service for
\* five that fail, returned 0, and the first article stored, which the
\* service would answer, is still unprocessed.
C18_Witness ==
    /\ PuDone(1)
    /\ ncalls[1] = 5
    /\ ret[1].val = Num(0)
    /\ Cardinality(Unprocessed(articles)) = 6
    /\ Cardinality(Later(1)) = 5

-----------------------------------------------------------------------------
(* refresh_feeds under concurrent invocations *)

====
